---- MODULE Spec2Model ----
(***************************************************************************)
(* cmhash: multiply-and-xor hashing of machine words.                      *)
(*                                                                         *)
(* The model is of the 64-bit target (target_pointer_width = "64"), where  *)
(* usize and u64 coincide.  A Word is kept at its full width as four       *)
(* 16-bit limbs, least significant first, so that the widening multiply    *)
(* and its two halves are computed exactly.                                *)
(***************************************************************************)
EXTENDS Integers, Sequences, FiniteSets, TLC

----------------------------------------------------------------------------
(* Words and their arithmetic *)

LimbBase == 2 ^ 16

Limb == 0 .. (LimbBase - 1)

Word == [1 .. 4 -> Limb]

IsWord(w) == w \in Word

Zero == <<0, 0, 0, 0>>

One == <<1, 0, 0, 0>>

Two == <<2, 0, 0, 0>>

WordMax == <<65535, 65535, 65535, 65535>>

\* 0xDEADBEEF, the value the tests hash
DEADBEEF == <<48879, 57005, 0, 0>>

\* 0xF0F0F0F0, the value the stateless test hashes
F0F0F0F0 == <<61680, 61680, 0, 0>>

XorNib == [a \in 0 .. 15, b \in 0 .. 15 |->
              (IF (a % 2) # (b % 2) THEN 1 ELSE 0)
            + (IF ((a \div 2) % 2) # ((b \div 2) % 2) THEN 2 ELSE 0)
            + (IF ((a \div 4) % 2) # ((b \div 4) % 2) THEN 4 ELSE 0)
            + (IF ((a \div 8) % 2) # ((b \div 8) % 2) THEN 8 ELSE 0)]

XorLimb(a, b) ==
      XorNib[a % 16, b % 16]
    + 16 * XorNib[(a \div 16) % 16, (b \div 16) % 16]
    + 256 * XorNib[(a \div 256) % 16, (b \div 256) % 16]
    + 4096 * XorNib[a \div 4096, b \div 4096]

\* the ^ operator on two words
BitXor(x, y) == <<XorLimb(x[1], y[1]), XorLimb(x[2], y[2]),
                  XorLimb(x[3], y[3]), XorLimb(x[4], y[4])>>

\* w << n on a word (0 <= n < 64), the bits shifted out dropped
Shl(w, n) ==
    LET q == n \div 16
        r == n % 16
        at(k) == IF k >= 1 THEN w[k] ELSE 0
        limb(k) == ((at(k - q) % (2 ^ (16 - r))) * (2 ^ r))
                   + (at(k - q - 1) \div (2 ^ (16 - r)))
    IN  <<limb(1), limb(2), limb(3), limb(4)>>

\* w - 1 on a nonzero word
Pred(w) ==
    IF w[1] > 0 THEN <<w[1] - 1, w[2], w[3], w[4]>>
    ELSE IF w[2] > 0 THEN <<65535, w[2] - 1, w[3], w[4]>>
    ELSE IF w[3] > 0 THEN <<65535, 65535, w[3] - 1, w[4]>>
    ELSE <<65535, 65535, 65535, w[4] - 1>>

\* const MERSENNE_PRIME: usize = (2 << 61) - 1
MERSENNE_PRIME == Pred(Shl(Two, 61))

\* const DEFAULT_HASHER_STATE: u64 = 0xAAAA_AAAA_AAAA_AAAA
DEFAULT_HASHER_STATE == <<43690, 43690, 43690, 43690>>

\* the 32-bit product of two limbs as <<low limb, high limb>>
MulLimb(a, b) ==
    LET p == a * (b \div 2)
        t == ((p % 32768) * 2) + (a * (b % 2))
    IN  <<t % LimbBase, (p \div 32768) + (t \div LimbBase)>>

\* usize::widening_mul / u64::widening_mul: the 128-bit product of two
\* words as <<low word, high word>>
widening_mul(x, c) ==
    LET p11 == MulLimb(x[1], c[1])  p12 == MulLimb(x[1], c[2])
        p13 == MulLimb(x[1], c[3])  p14 == MulLimb(x[1], c[4])
        p21 == MulLimb(x[2], c[1])  p22 == MulLimb(x[2], c[2])
        p23 == MulLimb(x[2], c[3])  p24 == MulLimb(x[2], c[4])
        p31 == MulLimb(x[3], c[1])  p32 == MulLimb(x[3], c[2])
        p33 == MulLimb(x[3], c[3])  p34 == MulLimb(x[3], c[4])
        p41 == MulLimb(x[4], c[1])  p42 == MulLimb(x[4], c[2])
        p43 == MulLimb(x[4], c[3])  p44 == MulLimb(x[4], c[4])
        c1 == p11[1]
        c2 == p12[1] + p21[1] + p11[2] + (c1 \div LimbBase)
        c3 == p13[1] + p22[1] + p31[1] + p12[2] + p21[2] + (c2 \div LimbBase)
        c4 == p14[1] + p23[1] + p32[1] + p41[1] + p13[2] + p22[2] + p31[2]
              + (c3 \div LimbBase)
        c5 == p24[1] + p33[1] + p42[1] + p14[2] + p23[2] + p32[2] + p41[2]
              + (c4 \div LimbBase)
        c6 == p34[1] + p43[1] + p24[2] + p33[2] + p42[2] + (c5 \div LimbBase)
        c7 == p44[1] + p34[2] + p43[2] + (c6 \div LimbBase)
        c8 == p44[2] + (c7 \div LimbBase)
    IN  << <<c1 % LimbBase, c2 % LimbBase, c3 % LimbBase, c4 % LimbBase>>,
           <<c5 % LimbBase, c6 % LimbBase, c7 % LimbBase, c8 % LimbBase>> >>

----------------------------------------------------------------------------
(* The double-width product x * (2^62 - 1) written as (x << 62) - x on     *)
(* eight limbs: the arithmetic statement the claims about the mixer are    *)
(* checked against.  It shares nothing with widening_mul.                  *)

\* x * 2^62 as eight limbs
ShiftLeft62(x) ==
    <<0, 0, 0,
      (x[1] % 4) * 16384,
      (x[1] \div 4) + ((x[2] % 4) * 16384),
      (x[2] \div 4) + ((x[3] % 4) * 16384),
      (x[3] \div 4) + ((x[4] % 4) * 16384),
      (x[4] \div 4)>>

RECURSIVE SubLimbs(_, _, _, _)
SubLimbs(a, b, k, borrow) ==
    IF k > Len(a) THEN <<>>
    ELSE LET d == a[k] - (IF k <= Len(b) THEN b[k] ELSE 0) - borrow
         IN  <<d % LimbBase>> \o SubLimbs(a, b, k + 1, IF d < 0 THEN 1 ELSE 0)

ProductBy2p62m1(x) == SubLimbs(ShiftLeft62(x), x, 1, 0)

LowHalf(p) == SubSeq(p, 1, 4)

HighHalf(p) == SubSeq(p, 5, 8)

----------------------------------------------------------------------------
(* Bounds and input sets *)

\* fast_hash calls recorded per hasher since its construction
MaxCalls == 2

\* write / write_u64 calls on a CMHasher since its construction
MaxWrites == 3

\* two hashers alive at once, as h and h2 of the test nopanic
Inst == {"h1", "h2"}

Threads == {"t1", "t2"}

Vals == {Zero, One, DEADBEEF, WordMax}

SLVals == {Zero, One, F0F0F0F0, WordMax}

InitStates == {Zero, DEFAULT_HASHER_STATE}

NoRet == <<>>

\* b"Hello, W": exactly one chunk
HELLO_W == <<72, 101, 108, 108, 111, 44, 32, 87>>

\* b"Hello, World!" of the test hasherimpl: one chunk and a tail of five
HELLO_WORLD == <<72, 101, 108, 108, 111, 44, 32, 87, 111, 114, 108, 100, 33>>

\* b"Lorem ipsum dolo": exactly two chunks
LOREM16 == <<76, 111, 114, 101, 109, 32, 105, 112,
             115, 117, 109, 32, 100, 111, 108, 111>>

ByteStrings == {<<>>, <<0>>, <<72, 105>>, HELLO_W, HELLO_WORLD, LOREM16}

WriteVals == {Zero, DEADBEEF}

\* what a single caller hashes with a TLCoreHasher and with a CoreHasher
SingleVals == {Zero, DEADBEEF}

\* writes fed to an adapter a builder produced, since it was produced
MaxFed == 2

\* CoreHasher::fast_hash calls of each thread on the shared hasher, the
\* 0..3 of the test loomtest
MaxThreadCalls == 2

\* what a thread hashes: 0xDEADBEEF as in loomtest, and for the second
\* thread 1 as well, which leaves a state of 0 as it is
ConcVals(t) == IF t = "t1" THEN {DEADBEEF} ELSE {One, DEADBEEF}

\* two adapters of one builder alive at once, as hash1 and hash2 of the test
\* buildhashers
Slots == {"a1", "a2"}

\* b"Lorem ipsum dolor sit amet" of the test buildhashers: three chunks and a
\* tail of two
LOREM26 == <<76, 111, 114, 101, 109, 32, 105, 112,
             115, 117, 109, 32, 100, 111, 108, 111,
             114, 32, 115, 105, 116, 32, 97, 109, 101, 116>>

\* the length of LOREM26 as a usize
LEN26 == <<26, 0, 0, 0>>

VARIABLES
    tl,      \* [Inst -> Word]: the Cell<usize> of each TLCoreHasher
    hist,    \* [Inst -> [init, calls]]: argument of the constructor and the
             \* fast_hash calls [val, pre, ret] made on the hasher since
    last,    \* the last operation on a hasher or of the free function:
             \* [op, inst, val]
    ret,     \* what the last operation returned, NoRet for none
    slseen,  \* [SLVals -> Word or NoRet]: what stateless_fast_hash returned
             \* the first time it was called on the value
    endian,  \* byte order of the target: "little" or "big"
    h,       \* the digest adapter in use: a CMHasher [kind, state, data]
             \* or a StatelessHasher [kind, data]
    hprev,   \* the adapter as it was before its last operation
    hlog,    \* the calls of self.hash the last operation made:
             \* [val, pre, hash], pre the hasher state read (NoRet for none)
    dn,      \* write / write_u64 calls on the adapter since construction
    dlast,   \* the adapter's last operation: [op, val, prevop]
    dpat,    \* how far the CMHasher in use is through write(b); finish();
             \* write(b); finish(): [stage, b, s0, e0, d1, s1, d2], the
             \* hasher state before and after the first write, the state
             \* before the second and the digest of each finish
    dseen,   \* [ByteStrings -> Seq(Word)]: what finish() returned each time
             \* it followed write(b) on the StatelessHasher in use
    bld,     \* the CMBuildHasher: [state]
    slot,    \* [Slots -> [a, from, fed, fin]]: an adapter the builder
             \* produced, the state of the builder that produced it, the
             \* writes fed to it since and what the first finish() after
             \* the last of them returned (NoRet for none)
    mo,      \* the values the AtomicUsize of the CoreHasher has held, in
             \* modification order, the constructor's first
    view,    \* [Threads -> 1 .. Len(mo)]: the latest value of mo the thread
             \* has loaded or stored; a load reads this one or a later one
    pc,      \* [Threads -> "idle" or "loaded"]: where the thread is in
             \* CoreHasher::fast_hash
    loc,     \* [Threads -> [val, state]]: the argument and the loaded state
             \* of the call the thread is in, NoRet outside a call
    clog,    \* [Threads -> Seq([val, pre, latest, ret, at])]: the calls of
             \* CoreHasher::fast_hash the thread has completed: pre the
             \* state loaded, latest whether that was the last value of mo
             \* at the time, at the place of the call's store in mo
    nops     \* [Threads -> [load, store]]: the atomic loads and stores the
             \* thread has executed in fast_hash

hasherVars == <<tl, hist>>

digestVars == <<endian, h, hprev, hlog, dn, dlast, dpat, dseen>>

buildVars == <<bld, slot>>

concVars == <<mo, view, pc, loc, clog, nops>>

vars == <<tl, hist, last, ret, slseen, endian, h, hprev, hlog, dn, dlast,
          dpat, dseen, bld, slot, mo, view, pc, loc, clog, nops>>

----------------------------------------------------------------------------
(* TLCoreHasher *)

\* fast_hash with the two halves of the product taken the other way round
fast_hash_swapped(state, val) ==
    LET input == BitXor(val, state)
        p == widening_mul(input, MERSENNE_PRIME)
    IN  [hash |-> p[2], state |-> p[1]]

\* fast_hash that multiplies val without XORing the state into it
fast_hash_no_state(state, val) ==
    LET p == widening_mul(val, MERSENNE_PRIME)
    IN  [hash |-> p[1], state |-> p[2]]

\* the body of fast_hash on the cell's value: the returned hash and the
\* value set back into the cell
fast_hash(state, val) ==
    LET input == BitXor(val, state)
        p == widening_mul(input, MERSENNE_PRIME)
    IN  [hash |-> p[1], state |-> p[2]]

\* the record kept of a hasher just constructed with state s
Fresh(s) == [init |-> s, calls |-> <<>>]

\* a constructor that leaves the cell's earlier value in place
TLCoreHasher_new_stale(i) ==
    /\ tl' = tl
    /\ hist' = [hist EXCEPT ![i] = Fresh(Zero)]
    /\ last' = [op |-> "new", inst |-> i, val |-> Zero]
    /\ ret' = NoRet
    /\ UNCHANGED <<slseen, digestVars, buildVars, concVars>>

TLCoreHasher_new(i) ==
    /\ tl' = [tl EXCEPT ![i] = Zero]
    /\ hist' = [hist EXCEPT ![i] = Fresh(Zero)]
    /\ last' = [op |-> "new", inst |-> i, val |-> Zero]
    /\ ret' = NoRet
    /\ UNCHANGED <<slseen, digestVars, buildVars, concVars>>

TLCoreHasher_with_state(i, state) ==
    /\ tl' = [tl EXCEPT ![i] = state]
    /\ hist' = [hist EXCEPT ![i] = Fresh(state)]
    /\ last' = [op |-> "with_state", inst |-> i, val |-> state]
    /\ ret' = NoRet
    /\ UNCHANGED <<slseen, digestVars, buildVars, concVars>>

\* a get_state that takes the value out of the cell: self.0.take()
TLCoreHasher_get_state_take(i) ==
    /\ ret' = tl[i]
    /\ tl' = [tl EXCEPT ![i] = Zero]
    /\ last' = [op |-> "get_state", inst |-> i, val |-> Zero]
    /\ UNCHANGED <<hist, slseen, digestVars, buildVars, concVars>>

TLCoreHasher_get_state(i) ==
    /\ ret' = tl[i]
    /\ last' = [op |-> "get_state", inst |-> i, val |-> Zero]
    /\ UNCHANGED <<tl, hist, slseen, digestVars, buildVars, concVars>>

TLCoreHasher_fast_hash(i, val) ==
    /\ Len(hist[i].calls) < MaxCalls
    /\ LET r == fast_hash(tl[i], val)
       IN  /\ tl' = [tl EXCEPT ![i] = r.state]
           /\ ret' = r.hash
           /\ hist' = [hist EXCEPT ![i].calls =
                          Append(@, [val |-> val, pre |-> tl[i], ret |-> r.hash])]
    /\ last' = [op |-> "fast_hash", inst |-> i, val |-> val]
    /\ UNCHANGED <<slseen, digestVars, buildVars, concVars>>

----------------------------------------------------------------------------
(* stateless_fast_hash *)

\* stateless_fast_hash without the high half folded in
stateless_fast_hash_low_only(val) ==
    LET p == widening_mul(val, MERSENNE_PRIME)
    IN  p[1]

stateless_fast_hash(val) ==
    LET p == widening_mul(val, MERSENNE_PRIME)
    IN  BitXor(p[1], p[2])

\* the first result of each value is remembered
Seen(seen, val, r) == IF seen[val] = NoRet THEN [seen EXCEPT ![val] = r] ELSE seen

\* the free function computed through a hasher that is kept between calls
StatelessCall_keeps_state(t, val) ==
    LET r == fast_hash(tl["h1"], val)
    IN  /\ ret' = BitXor(r.hash, r.state)
        /\ tl' = [tl EXCEPT !["h1"] = r.state]
        /\ last' = [op |-> "stateless_fast_hash", inst |-> t, val |-> val]
        /\ slseen' = Seen(slseen, val, ret')
        /\ UNCHANGED <<hist, digestVars, buildVars, concVars>>

\* a call of stateless_fast_hash(val) by thread t
StatelessCall(t, val) ==
    /\ ret' = stateless_fast_hash(val)
    /\ last' = [op |-> "stateless_fast_hash", inst |-> t, val |-> val]
    /\ slseen' = Seen(slseen, val, ret')
    /\ UNCHANGED <<tl, hist, digestVars, buildVars, concVars>>

----------------------------------------------------------------------------
(* The digest adapters of hasher.rs: CMHasher and StatelessHasher *)

\* the width of bytes.array_chunks::<8>() and of the [0u8; 8] tail
CHUNK == 8

\* the multiplier (2 << 61) - 1 written out in CMHasher::hash and
\* StatelessHasher::hash
U64_MULTIPLIER == Pred(Shl(Two, 61))

\* u64::from_ne_bytes on an array of eight bytes
from_ne_bytes(a) ==
    IF endian = "little"
    THEN <<a[1] + (256 * a[2]), a[3] + (256 * a[4]),
           a[5] + (256 * a[6]), a[7] + (256 * a[8])>>
    ELSE <<a[8] + (256 * a[7]), a[6] + (256 * a[5]),
           a[4] + (256 * a[3]), a[2] + (256 * a[1])>>

\* u64::to_ne_bytes, the inverse of from_ne_bytes: what the provided
\* write_u64 of the Hasher trait feeds to write, and the bytes of a hashed word
to_ne_bytes(w) ==
    LET le == <<w[1] % 256, w[1] \div 256, w[2] % 256, w[2] \div 256,
                w[3] % 256, w[3] \div 256, w[4] % 256, w[4] \div 256>>
    IN  IF endian = "little" THEN le ELSE [k \in 1 .. 8 |-> le[9 - k]]

\* bytes.array_chunks::<8>(): the full chunks, in order
array_chunks(bytes) ==
    [k \in 1 .. (Len(bytes) \div CHUNK) |->
        SubSeq(bytes, (CHUNK * (k - 1)) + 1, CHUNK * k)]

\* chunks.remainder(): what is left after the last full chunk
remainder(bytes) ==
    SubSeq(bytes, (CHUNK * (Len(bytes) \div CHUNK)) + 1, Len(bytes))

\* a tail word that carries the length of the tail in its last byte
rem_with_length(bytes) ==
    LET r == remainder(bytes)
    IN  from_ne_bytes([k \in 1 .. CHUNK |->
            IF k <= Len(r) THEN r[k] ELSE IF k = CHUNK THEN Len(r) ELSE 0])

\* let rem = { let mut r = chunks.remainder().iter();
\*             u64::from_ne_bytes([0u8; 8].map(|_| *r.next().unwrap_or(&0))) }
rem(bytes) ==
    LET r == remainder(bytes)
    IN  from_ne_bytes([k \in 1 .. CHUNK |-> IF k <= Len(r) THEN r[k] ELSE 0])

\* the words of a write that hashes the tail only when there is one
write_words_skip_empty_tail(bytes) ==
    LET chunks == array_chunks(bytes)
        words == [k \in 1 .. Len(chunks) |-> from_ne_bytes(chunks[k])]
    IN  IF remainder(bytes) = <<>> THEN words ELSE words \o <<rem(bytes)>>

\* chunks.map(|c| u64::from_ne_bytes(*c)).chain(core::iter::once(rem))
write_words(bytes) ==
    LET chunks == array_chunks(bytes)
    IN  [k \in 1 .. Len(chunks) |-> from_ne_bytes(chunks[k])] \o <<rem(bytes)>>

\* CMHasher::hash on the state cell's value: the returned hash and the value
\* set back into the cell
CMHasher_hash(state, val) ==
    LET input == BitXor(val, state)
        p == widening_mul(input, U64_MULTIPLIER)
    IN  [hash |-> p[1], state |-> p[2]]

\* StatelessHasher::hash
StatelessHasher_hash(val) ==
    LET p == widening_mul(val, U64_MULTIPLIER)
    IN  BitXor(p[1], p[2])

\* .fold(init, |val, next| val ^ self.hash(next)) over a CMHasher: the
\* accumulator, the state the calls of self.hash leave, and those calls
RECURSIVE CMHasher_fold(_, _, _, _)
CMHasher_fold(words, acc, state, log) ==
    IF words = <<>> THEN [acc |-> acc, state |-> state, log |-> log]
    ELSE LET r == CMHasher_hash(state, Head(words))
         IN  CMHasher_fold(Tail(words), BitXor(acc, r.hash), r.state,
                 Append(log, [val |-> Head(words), pre |-> state, hash |-> r.hash]))

\* a fold that feeds the accumulator into the next hash
RECURSIVE StatelessHasher_fold_chained(_, _, _)
StatelessHasher_fold_chained(words, acc, log) ==
    IF words = <<>> THEN [acc |-> acc, log |-> log]
    ELSE LET r == StatelessHasher_hash(BitXor(acc, Head(words)))
         IN  StatelessHasher_fold_chained(Tail(words), r,
                 Append(log, [val |-> Head(words), pre |-> NoRet, hash |-> r]))

\* .fold(0, |val, next| val ^ self.hash(next)) over a StatelessHasher
RECURSIVE StatelessHasher_fold(_, _, _)
StatelessHasher_fold(words, acc, log) ==
    IF words = <<>> THEN [acc |-> acc, log |-> log]
    ELSE LET r == StatelessHasher_hash(Head(words))
         IN  StatelessHasher_fold(Tail(words), BitXor(acc, r),
                 Append(log, [val |-> Head(words), pre |-> NoRet, hash |-> r]))

\* a write that XORs the fold into the register instead of setting it
CMHasher_write_accumulates(a, bytes) ==
    LET f == CMHasher_fold(write_words(bytes), a.state, a.state, <<>>)
    IN  [a |-> [a EXCEPT !.state = f.state, !.data = BitXor(a.data, f.acc)],
         log |-> f.log]

\* a write that takes the first byte of the tail without looking whether
\* there is one: on a slice that ends with a chunk the register is left
\* without a value
CMHasher_write_first_of_tail(a, bytes) ==
    LET f == CMHasher_fold(write_words(bytes), a.state, a.state, <<>>)
    IN  IF remainder(bytes) = <<>>
        THEN [a |-> [a EXCEPT !.data = NoRet], log |-> <<>>]
        ELSE [a |-> [a EXCEPT !.state = f.state, !.data = f.acc], log |-> f.log]

\* CMHasher::write: the adapter after the call and the calls of self.hash
CMHasher_write(a, bytes) ==
    LET f == CMHasher_fold(write_words(bytes), a.state, a.state, <<>>)
    IN  [a |-> [a EXCEPT !.state = f.state, !.data = f.acc], log |-> f.log]

\* write_u64 left to the provided method of the Hasher trait, which is
\* self.write(&i.to_ne_bytes())
CMHasher_write_u64_by_write(a, i) == CMHasher_write(a, to_ne_bytes(i))

\* a write_u64 that XORs the hash into the register instead of setting it
CMHasher_write_u64_accumulates(a, i) ==
    LET r == CMHasher_hash(a.state, i)
    IN  [a |-> [a EXCEPT !.state = r.state, !.data = BitXor(a.data, r.hash)],
         log |-> <<[val |-> i, pre |-> a.state, hash |-> r.hash]>>]

\* CMHasher::write_u64
CMHasher_write_u64(a, i) ==
    LET r == CMHasher_hash(a.state, i)
    IN  [a |-> [a EXCEPT !.state = r.state, !.data = r.hash],
         log |-> <<[val |-> i, pre |-> a.state, hash |-> r.hash]>>]

\* a finish that reads the register without clearing it
CMHasher_finish_keeps(a) == [a |-> a, ret |-> a.data]

\* a finish that starts the hasher state over as well
CMHasher_finish_resets(a) ==
    [a |-> [a EXCEPT !.data = Zero, !.state = DEFAULT_HASHER_STATE],
     ret |-> a.data]

\* CMHasher::finish: self.data.replace(0)
CMHasher_finish(a) == [a |-> [a EXCEPT !.data = Zero], ret |-> a.data]

\* a write that XORs the fold into the register instead of setting it
StatelessHasher_write_accumulates(a, bytes) ==
    LET f == StatelessHasher_fold(write_words(bytes), Zero, <<>>)
    IN  [a |-> [a EXCEPT !.data = BitXor(a.data, f.acc)], log |-> f.log]

\* StatelessHasher::write
StatelessHasher_write(a, bytes) ==
    LET f == StatelessHasher_fold(write_words(bytes), Zero, <<>>)
    IN  [a |-> [a EXCEPT !.data = f.acc], log |-> f.log]

\* StatelessHasher::write_u64
StatelessHasher_write_u64(a, i) ==
    LET r == StatelessHasher_hash(i)
    IN  [a |-> [a EXCEPT !.data = r],
         log |-> <<[val |-> i, pre |-> NoRet, hash |-> r]>>]

\* StatelessHasher::finish: self.data.replace(0)
StatelessHasher_finish(a) == [a |-> [a EXCEPT !.data = Zero], ret |-> a.data]

\* no write(b); finish(); write(b); finish() under way
NoPattern == [stage |-> 0, b |-> <<>>, s0 |-> NoRet, e0 |-> NoRet,
              d1 |-> NoRet, s1 |-> NoRet, d2 |-> NoRet]

\* dpat after the operation op(val) on the CMHasher h that left the adapter
\* a and returned rv
DPat(op, val, a, rv) ==
    IF h.kind # "CMHasher" THEN dpat
    ELSE IF op = "write" /\ dpat.stage = 2 /\ val = dpat.b
         THEN [dpat EXCEPT !.stage = 3, !.s1 = h.state]
    ELSE IF op = "write"
         THEN [NoPattern EXCEPT !.stage = 1, !.b = val, !.s0 = h.state,
                                !.e0 = a.state]
    ELSE IF op = "finish" /\ dpat.stage = 1
         THEN [dpat EXCEPT !.stage = 2, !.d1 = rv]
    ELSE IF op = "finish" /\ dpat.stage = 3
         THEN [dpat EXCEPT !.stage = 4, !.d2 = rv]
    ELSE NoPattern

\* no finish() has followed a write on the StatelessHasher in use
NoneSeen == [b \in ByteStrings |-> <<>>]

\* dseen after the operation op that returned rv on the StatelessHasher h
DSeen(op, rv) ==
    IF h.kind = "StatelessHasher" /\ op = "finish" /\ dlast.op = "write"
    THEN [dseen EXCEPT ![dlast.val] = Append(@, rv)]
    ELSE dseen

\* last after an operation on the digest adapter, which dlast tells
OnAdapter == [op |-> "Hasher", inst |-> "h", val |-> Zero]

\* the effect of the constructor op(val): the adapter a replaces the one in
\* use
Built(op, val, a) ==
    /\ h' = a
    /\ hprev' = a
    /\ hlog' = <<>>
    /\ dlast' = [op |-> op, val |-> val, prevop |-> "none"]
    /\ dpat' = NoPattern
    /\ dseen' = NoneSeen
    /\ ret' = NoRet
    /\ last' = OnAdapter
    /\ UNCHANGED <<tl, hist, slseen, endian, buildVars, concVars>>

\* the effect of one call on the adapter: r.a the adapter after it, r.log the
\* calls of self.hash it made, rv what it returned
Done(op, val, r, rv) ==
    /\ h' = r.a
    /\ hprev' = h
    /\ hlog' = r.log
    /\ dlast' = [op |-> op, val |-> val, prevop |-> dlast.op]
    /\ dpat' = DPat(op, val, r.a, rv)
    /\ dseen' = DSeen(op, rv)
    /\ ret' = rv
    /\ last' = OnAdapter
    /\ UNCHANGED <<tl, hist, slseen, endian, buildVars, concVars>>

\* CMHasher::new()
CMNew ==
    /\ dn' = 0
    /\ Built("new", <<>>,
             [kind |-> "CMHasher", state |-> DEFAULT_HASHER_STATE, data |-> Zero])

\* CMHasher::with_state(state)
CMWithState(state) ==
    /\ dn' = 0
    /\ Built("with_state", state,
             [kind |-> "CMHasher", state |-> state, data |-> Zero])

\* StatelessHasher::new()
SLNew ==
    /\ dn' = 0
    /\ Built("new", <<>>, [kind |-> "StatelessHasher", data |-> Zero])

CMWrite(bytes) ==
    /\ h.kind = "CMHasher"
    /\ dn < MaxWrites
    /\ dn' = dn + 1
    /\ Done("write", bytes, CMHasher_write(h, bytes), NoRet)

CMWriteU64(i) ==
    /\ h.kind = "CMHasher"
    /\ dn < MaxWrites
    /\ dn' = dn + 1
    /\ Done("write_u64", i, CMHasher_write_u64(h, i), NoRet)

CMFinish ==
    /\ h.kind = "CMHasher"
    /\ dn' = dn
    /\ LET r == CMHasher_finish(h)
       IN  Done("finish", <<>>, [a |-> r.a, log |-> <<>>], r.ret)

SLWrite(bytes) ==
    /\ h.kind = "StatelessHasher"
    /\ dn < MaxWrites
    /\ dn' = dn + 1
    /\ Done("write", bytes, StatelessHasher_write(h, bytes), NoRet)

SLWriteU64(i) ==
    /\ h.kind = "StatelessHasher"
    /\ dn < MaxWrites
    /\ dn' = dn + 1
    /\ Done("write_u64", i, StatelessHasher_write_u64(h, i), NoRet)

SLFinish ==
    /\ h.kind = "StatelessHasher"
    /\ dn' = dn
    /\ LET r == StatelessHasher_finish(h)
       IN  Done("finish", <<>>, [a |-> r.a, log |-> <<>>], r.ret)

----------------------------------------------------------------------------
(* CoreHasher: the state in an AtomicUsize, loaded with Ordering::Acquire  *)
(* and stored with Ordering::Release.  The orderings are not SeqCst, so a  *)
(* load may read any value of the modification order that is not older     *)
(* than what the loading thread has already loaded or stored.              *)

\* the value of the AtomicUsize: the last one in modification order
Latest == mo[Len(mo)]

\* self.0.load(Ordering::Acquire) by thread t: the places of mo it may read
Loadable(t) == view[t] .. Len(mo)

\* a CoreHasher::new() whose state is the S0 of hasher.rs
CoreNew_S0 ==
    /\ last' = [op |-> "CoreHasher::new", inst |-> "t1", val |-> Zero]
    /\ mo' = <<DEFAULT_HASHER_STATE>>
    /\ view' = [t \in Threads |-> 1]
    /\ pc' = [t \in Threads |-> "idle"]
    /\ loc' = [t \in Threads |-> NoRet]
    /\ clog' = [t \in Threads |-> <<>>]
    /\ nops' = [t \in Threads |-> [load |-> 0, store |-> 0]]
    /\ ret' = NoRet
    /\ UNCHANGED <<tl, hist, slseen, digestVars, buildVars>>

\* CoreHasher::new() / CoreHasher::with_state(state), handed to new threads
CoreBuilt(state) ==
    /\ mo' = <<state>>
    /\ view' = [t \in Threads |-> 1]
    /\ pc' = [t \in Threads |-> "idle"]
    /\ loc' = [t \in Threads |-> NoRet]
    /\ clog' = [t \in Threads |-> <<>>]
    /\ nops' = [t \in Threads |-> [load |-> 0, store |-> 0]]
    /\ ret' = NoRet
    /\ UNCHANGED <<tl, hist, slseen, digestVars, buildVars>>

CoreNew ==
    /\ last' = [op |-> "CoreHasher::new", inst |-> "t1", val |-> Zero]
    /\ CoreBuilt(Zero)

CoreWithState(state) ==
    /\ last' = [op |-> "CoreHasher::with_state", inst |-> "t1", val |-> state]
    /\ CoreBuilt(state)

\* CoreHasher::get_state() by thread t
CoreGetState(t) ==
    /\ pc[t] = "idle"
    /\ \E k \in Loadable(t) :
          /\ ret' = mo[k]
          /\ view' = [view EXCEPT ![t] = k]
    /\ last' = [op |-> "CoreHasher::get_state", inst |-> t, val |-> Zero]
    /\ UNCHANGED <<mo, pc, loc, clog, nops, tl, hist, slseen, digestVars,
                   buildVars>>

\* a load that may read any value the AtomicUsize has held, also one older
\* than the thread's own last store
CoreLoad_any(t, val) ==
    /\ pc[t] = "idle"
    /\ Len(clog[t]) < MaxThreadCalls
    /\ \E k \in 1 .. Len(mo) :
          /\ loc' = [loc EXCEPT ![t] = [val |-> val, state |-> mo[k],
                                        latest |-> (k = Len(mo))]]
          /\ view' = [view EXCEPT ![t] = k]
    /\ pc' = [pc EXCEPT ![t] = "loaded"]
    /\ nops' = [nops EXCEPT ![t].load = @ + 1]
    /\ UNCHANGED <<mo, clog, last, ret, tl, hist, slseen, digestVars, buildVars>>

\* thread t enters fast_hash(val) and executes its load
CoreLoad(t, val) ==
    /\ pc[t] = "idle"
    /\ Len(clog[t]) < MaxThreadCalls
    /\ \E k \in Loadable(t) :
          /\ loc' = [loc EXCEPT ![t] = [val |-> val, state |-> mo[k],
                                        latest |-> (k = Len(mo))]]
          /\ view' = [view EXCEPT ![t] = k]
    /\ pc' = [pc EXCEPT ![t] = "loaded"]
    /\ nops' = [nops EXCEPT ![t].load = @ + 1]
    /\ UNCHANGED <<mo, clog, last, ret, tl, hist, slseen, digestVars, buildVars>>

\* self.0.store(state, Ordering::Release) by thread t and the return of hash
CoreReturn(t, hash, state) ==
    /\ mo' = Append(mo, state)
    /\ ret' = hash
    /\ clog' = [clog EXCEPT ![t] =
                   Append(@, [val |-> loc[t].val, pre |-> loc[t].state,
                              latest |-> loc[t].latest, ret |-> hash,
                              at |-> Len(mo) + 1])]
    /\ view' = [view EXCEPT ![t] = Len(mo) + 1]
    /\ pc' = [pc EXCEPT ![t] = "idle"]
    /\ loc' = [loc EXCEPT ![t] = NoRet]
    /\ nops' = [nops EXCEPT ![t].store = @ + 1]
    /\ last' = [op |-> "CoreHasher::fast_hash", inst |-> t, val |-> loc[t].val]
    /\ UNCHANGED <<tl, hist, slseen, digestVars, buildVars>>

\* a fast_hash that stores the hash as the new state
CoreStore_stores_hash(t) ==
    /\ pc[t] = "loaded"
    /\ \E input \in {BitXor(loc[t].val, loc[t].state)} :
       \E p \in {widening_mul(input, MERSENNE_PRIME)} :
          CoreReturn(t, p[1], p[1])

\* a fast_hash that is a read-modify-write: the state mixed is the one the
\* AtomicUsize holds at the store
CoreStore_rmw(t) ==
    /\ pc[t] = "loaded"
    /\ \E input \in {BitXor(loc[t].val, Latest)} :
       \E p \in {widening_mul(input, MERSENNE_PRIME)} :
          CoreReturn(t, p[1], p[2])

\* a fast_hash that is a compare-and-swap in a loop: when the AtomicUsize no
\* longer holds the state loaded, the thread goes back to load again
CoreStore_cas(t) ==
    /\ pc[t] = "loaded"
    /\ IF loc[t].state = Latest
       THEN \E input \in {BitXor(loc[t].val, loc[t].state)} :
            \E p \in {widening_mul(input, MERSENNE_PRIME)} :
               CoreReturn(t, p[1], p[2])
       ELSE /\ pc' = [pc EXCEPT ![t] = "idle"]
            /\ loc' = [loc EXCEPT ![t] = NoRet]
            /\ view' = [view EXCEPT ![t] = Len(mo)]
            /\ nops' = [nops EXCEPT ![t].load = @ + 1]
            /\ UNCHANGED <<mo, ret, clog, last, tl, hist, slseen, digestVars,
                           buildVars>>

\* thread t, its load done, goes through the rest of fast_hash:
\*     let input = val ^ state;
\*     let (hash, state) = input.widening_mul(MERSENNE_PRIME);
\*     self.0.store(state, Ordering::Release);
\*     hash
CoreStore(t) ==
    /\ pc[t] = "loaded"
    /\ \E input \in {BitXor(loc[t].val, loc[t].state)} :
       \E p \in {widening_mul(input, MERSENNE_PRIME)} :
          CoreReturn(t, p[1], p[2])

\* what thread t does next in its loop of fast_hash calls
ThreadStep(t) == (\E v \in ConcVals(t) : CoreLoad(t, v)) \/ CoreStore(t)

----------------------------------------------------------------------------
(* CMBuildHasher *)

\* CMHasher::with_state(state)
CMHasher_with_state(state) ==
    [kind |-> "CMHasher", state |-> state, data |-> Zero]

\* CMBuildHasher::with_state(state)
CMBuildHasher_with_state(state) == [state |-> state]

\* CMBuildHasher::new()
CMBuildHasher_new == CMBuildHasher_with_state(DEFAULT_HASHER_STATE)

\* a build_hasher that ignores the builder's state: CMHasher::new()
CMBuildHasher_build_hasher_default(b) ==
    CMHasher_with_state(DEFAULT_HASHER_STATE)

\* <CMBuildHasher as BuildHasher>::build_hasher
CMBuildHasher_build_hasher(b) == CMHasher_with_state(b.state)

\* <[u8; N] as Hash>::hash(bytes, &mut h), as the tests feed an adapter:
\* write_length_prefix(len), that is write(&len.to_ne_bytes()), and then
\* write(bytes)
HashWrites(len, bytes) == <<to_ne_bytes(len), bytes>>

\* what the builder's adapters are fed
BuildBytes == {to_ne_bytes(LEN26), LOREM26}

\* the record of an adapter the builder b has just produced
Produced(b) ==
    [a |-> CMBuildHasher_build_hasher(b), from |-> b.state,
     fed |-> <<>>, fin |-> NoRet]

\* let builder = CMBuildHasher::new()
BuilderNew ==
    /\ bld' = CMBuildHasher_new
    /\ UNCHANGED <<slot, tl, hist, last, ret, slseen, digestVars, concVars>>

\* let builder = CMBuildHasher::with_state(state)
BuilderWithState(state) ==
    /\ bld' = CMBuildHasher_with_state(state)
    /\ UNCHANGED <<slot, tl, hist, last, ret, slseen, digestVars, concVars>>

\* let mut h = builder.build_hasher(), h being adapter k
BuildHasher(k) ==
    /\ slot' = [slot EXCEPT ![k] = Produced(bld)]
    /\ UNCHANGED <<bld, tl, hist, last, ret, slseen, digestVars, concVars>>

\* write(bytes) on adapter k
SlotWrite(k, bytes) ==
    /\ Len(slot[k].fed) < MaxFed
    /\ slot' = [slot EXCEPT ![k].a = CMHasher_write(@, bytes).a,
                            ![k].fed = Append(@, bytes),
                            ![k].fin = NoRet]
    /\ UNCHANGED <<bld, tl, hist, last, ret, slseen, digestVars, concVars>>

\* finish() on adapter k
SlotFinish(k) ==
    /\ LET r == CMHasher_finish(slot[k].a)
       IN  slot' = [slot EXCEPT ![k].a = r.a,
                               ![k].fin = IF @ = NoRet THEN r.ret ELSE @]
    /\ UNCHANGED <<bld, tl, hist, last, ret, slseen, digestVars, concVars>>

----------------------------------------------------------------------------
(* Initial states and the specifications *)

HasherInit ==
    /\ tl = [i \in Inst |-> Zero]
    /\ hist = [i \in Inst |-> Fresh(Zero)]
    /\ last = [op |-> "new", inst |-> "h1", val |-> Zero]
    /\ ret = NoRet
    /\ slseen = [v \in SLVals |-> NoRet]

DigestInit ==
    /\ h = [kind |-> "CMHasher", state |-> DEFAULT_HASHER_STATE, data |-> Zero]
    /\ hprev = h
    /\ hlog = <<>>
    /\ dn = 0
    /\ dlast = [op |-> "new", val |-> <<>>, prevop |-> "none"]
    /\ dpat = NoPattern
    /\ dseen = NoneSeen

\* a CMBuildHasher::new() and two adapters it has produced
BuildInit ==
    /\ bld = CMBuildHasher_new
    /\ slot = [k \in Slots |-> Produced(bld)]

\* no thread is in a call on the CoreHasher
ThreadsInit ==
    /\ view = [t \in Threads |-> 1]
    /\ pc = [t \in Threads |-> "idle"]
    /\ loc = [t \in Threads |-> NoRet]
    /\ clog = [t \in Threads |-> <<>>]
    /\ nops = [t \in Threads |-> [load |-> 0, store |-> 0]]

\* a CoreHasher::new() shared by the threads
ConcInit == mo = <<Zero>> /\ ThreadsInit

\* the hashers of lib.rs never look at the byte order
Init == HasherInit /\ DigestInit /\ BuildInit /\ ConcInit /\ endian = "little"

Next ==
    \/ \E i \in Inst : TLCoreHasher_new(i)
    \/ \E i \in Inst, s \in InitStates : TLCoreHasher_with_state(i, s)
    \/ \E i \in Inst : TLCoreHasher_get_state(i)
    \/ \E i \in Inst, v \in Vals : TLCoreHasher_fast_hash(i, v)

\* two TLCoreHashers, constructed, read and used in any order
Spec == Init /\ [][Next]_vars

NextStateless ==
    \/ \E t \in Threads, v \in SLVals : StatelessCall(t, v)
    \/ \E v \in Vals : TLCoreHasher_fast_hash("h1", v)
    \/ TLCoreHasher_new("h1")

\* calls of stateless_fast_hash from two threads, with a stateful hasher
\* used and rebuilt in between
SpecStateless == Init /\ [][NextStateless]_vars

InitDigest ==
    HasherInit /\ DigestInit /\ BuildInit /\ ConcInit /\ endian \in {"little", "big"}

NextDigest ==
    \/ CMNew
    \/ \E s \in InitStates : CMWithState(s)
    \/ SLNew
    \/ \E b \in ByteStrings : CMWrite(b)
    \/ \E i \in WriteVals : CMWriteU64(i)
    \/ CMFinish
    \/ \E b \in ByteStrings : SLWrite(b)
    \/ \E i \in WriteVals : SLWriteU64(i)
    \/ SLFinish

\* one digest adapter at a time, built, written to and finished in any
\* order, on a target of either byte order
SpecDigest == InitDigest /\ [][NextDigest]_vars

\* a CoreHasher::new() or CoreHasher::with_state(s) shared by the threads
InitConc ==
    /\ HasherInit /\ DigestInit /\ BuildInit /\ ThreadsInit
    /\ endian = "little"
    /\ mo \in {<<s>> : s \in InitStates}

NextConc ==
    \/ \E t \in Threads : \E v \in ConcVals(t) : CoreLoad(t, v)
    \/ \E t \in Threads : CoreStore(t)

\* the threads of the test loomtest: each calls fast_hash on the shared
\* CoreHasher MaxThreadCalls times, their loads and stores interleaved
SpecConc == InitConc /\ [][NextConc]_vars

\* the test loomtest: the hasher is a CoreHasher::new(), and the scheduler
\* lets every thread run: a thread that can take a step is not held back
\* for ever
SpecConcFair ==
    /\ Init
    /\ [][NextConc]_vars
    /\ \A t \in Threads : WF_vars(ThreadStep(t))

NextSingle ==
    \/ TLCoreHasher_new("h1")
    \/ \E s \in InitStates : TLCoreHasher_with_state("h1", s)
    \/ TLCoreHasher_get_state("h1")
    \/ \E v \in SingleVals : TLCoreHasher_fast_hash("h1", v)
    \/ CoreNew
    \/ \E s \in InitStates : CoreWithState(s)
    \/ CoreGetState("t1")
    \/ \E v \in SingleVals : CoreLoad("t1", v)
    \/ CoreStore("t1")
    \/ CMNew
    \/ \E s \in InitStates : CMWithState(s)

\* one caller with a TLCoreHasher, a CoreHasher and a CMHasher of its own:
\* each constructed, read and used in any order
SpecSingle == Init /\ [][NextSingle]_vars

NextBuild ==
    \/ BuilderNew
    \/ \E s \in InitStates : BuilderWithState(s)
    \/ \E k \in Slots : BuildHasher(k)
    \/ \E k \in Slots, b \in BuildBytes : SlotWrite(k, b)
    \/ \E k \in Slots : SlotFinish(k)

\* one builder, replaced at times, and two adapters it produces, each fed
\* and finished in any order
SpecBuild == InitDigest /\ [][NextBuild]_vars

----------------------------------------------------------------------------
(* Claims about the stateful hasher *)

LastCall(i) == hist[i].calls[Len(hist[i].calls)]

\* C1: hash_word(v) on a stateful hasher in state s returns the low half of
\* the double-width product (v XOR s) * C and leaves the state equal to the
\* high half of that product, C being 2^62 - 1.
C1_HashLowStateHigh ==
    last.op = "fast_hash" =>
        LET c == LastCall(last.inst)
            p == ProductBy2p62m1(BitXor(c.val, c.pre))
        IN  /\ c.val = last.val
            /\ ret = LowHalf(p)
            /\ tl[last.inst] = HighHalf(p)
            /\ MERSENNE_PRIME = LowHalf(ProductBy2p62m1(One))

\* a second call in a row on a hasher whose state is no longer its initial one
C1_Witness ==
    /\ last.op = "fast_hash"
    /\ last.val = DEADBEEF
    /\ Len(hist[last.inst].calls) = 2
    /\ LastCall(last.inst).pre \notin {Zero, DEFAULT_HASHER_STATE}
    /\ tl[last.inst] # Zero

\* C2 as stated: two consecutive hash_word(v) calls on one hasher return two
\* different values, for every v and every initial state.
C2_ConsecutiveAlwaysDiffer ==
    \A i \in Inst : \A k \in 1 .. (Len(hist[i].calls) - 1) :
        hist[i].calls[k].val = hist[i].calls[k + 1].val
            => hist[i].calls[k].ret # hist[i].calls[k + 1].ret

\* C2 amended: two consecutive hash_word(v) calls on one hasher return two
\* different values exactly when the first call changed the hasher state.
C2_DifferIffStateMoved ==
    \A i \in Inst : \A k \in 1 .. (Len(hist[i].calls) - 1) :
        hist[i].calls[k].val = hist[i].calls[k + 1].val
            => (hist[i].calls[k].ret # hist[i].calls[k + 1].ret
                <=> hist[i].calls[k].pre # hist[i].calls[k + 1].pre)

\* the test nopanic: a default hasher hashes 0xDEADBEEF twice, differently
C2_Witness ==
    /\ hist["h1"].init = Zero
    /\ Len(hist["h1"].calls) = 2
    /\ hist["h1"].calls[1].val = DEADBEEF
    /\ hist["h1"].calls[2].val = DEADBEEF
    /\ hist["h1"].calls[1].ret # hist["h1"].calls[2].ret

\* C3: two freshly constructed hashers with the same initial state return
\* the same value for their first hash_word(v), whatever was done to the
\* other hasher, or to an earlier hasher, before.
C3_FreshHashersAgree ==
    \A i, j \in Inst :
        (/\ hist[i].init = hist[j].init
         /\ Len(hist[i].calls) >= 1
         /\ Len(hist[j].calls) >= 1
         /\ hist[i].calls[1].val = hist[j].calls[1].val)
            => hist[i].calls[1].ret = hist[j].calls[1].ret

\* h1 has hashed twice, then h2 is built and hashes h1's first value
C3_Witness ==
    /\ last = [op |-> "fast_hash", inst |-> "h2", val |-> DEADBEEF]
    /\ Len(hist["h1"].calls) = 2
    /\ Len(hist["h2"].calls) = 1
    /\ hist["h1"].init = hist["h2"].init
    /\ hist["h1"].calls[1].val = DEADBEEF
    /\ tl["h1"] # tl["h2"]

----------------------------------------------------------------------------
(* Claims about the stateless hash *)

XorHalves(p) == BitXor(LowHalf(p), HighHalf(p))

\* C4 as stated: hash_stateless(v) is low XOR high of the double-width
\* product of (v XOR S0) and C, S0 the alternating-bit default state.
C4_XorsDefaultState ==
    last.op = "stateless_fast_hash" =>
        ret = XorHalves(ProductBy2p62m1(BitXor(last.val, DEFAULT_HASHER_STATE)))

\* C4 amended: hash_stateless(v) is low XOR high of the double-width product
\* of v itself and C; no default state is XORed into the input.
C4_XorOfHalvesOfPlainProduct ==
    last.op = "stateless_fast_hash" =>
        ret = XorHalves(ProductBy2p62m1(last.val))

C4_Witness ==
    /\ last.op = "stateless_fast_hash"
    /\ last.val = F0F0F0F0
    /\ ret # Zero
    /\ ret # LowHalf(ProductBy2p62m1(F0F0F0F0))

----------------------------------------------------------------------------
(* Claims about the digest adapters *)

RECURSIVE XorAll(_)
XorAll(log) == IF log = <<>> THEN Zero ELSE BitXor(Head(log).hash, XorAll(Tail(log)))

\* C6: finish() returns the current Digest Register and sets the register
\* to 0, so a finish() that follows a finish() with no write in between
\* returns 0.
C6_FinishTakesRegister ==
    dlast.op = "finish" =>
        /\ ret = hprev.data
        /\ h.data = Zero
        /\ dlast.prevop = "finish" => ret = Zero

\* a second finish in a row on an adapter that has been written to
C6_Witness ==
    /\ dlast.op = "finish"
    /\ dlast.prevop = "finish"
    /\ dn >= 1
    /\ ret = Zero

\* C7: after write(bytes) on a CMHasher the register is exactly the XOR of
\* the values hash_word returned for the chunks and the padded tail (a fold
\* that starts from 0, not from the hasher state), and every such call has
\* advanced the hasher state.
C7_RegisterIsXorOfChunkHashes ==
    (dlast.op = "write" /\ h.kind = "CMHasher") =>
        /\ h.data = XorAll(hlog)
        /\ hlog[1].pre = hprev.state
        /\ \A k \in 1 .. Len(hlog) :
              (IF k < Len(hlog) THEN hlog[k + 1].pre ELSE h.state)
                  = HighHalf(ProductBy2p62m1(BitXor(hlog[k].val, hlog[k].pre)))

\* C8: write replaces the register: after write(b) the register is the fold
\* over b's chunks alone, computed from the hasher state the operation
\* before left, with no part of the register's earlier value in it.  The
\* fold is seeded with that hasher state on a CMHasher and with 0 on a
\* StatelessHasher.
C8_WriteReplacesRegister ==
    dlast.op = "write" =>
        IF h.kind = "CMHasher"
        THEN /\ hlog[1].pre = hprev.state
             /\ h.data = BitXor(hprev.state, XorAll(hlog))
        ELSE h.data = XorAll(hlog)

\* write(b) right after a write that left a nonzero register
C8_Witness ==
    /\ dlast.op = "write"
    /\ dlast.prevop = "write"
    /\ dlast.val = HELLO_WORLD
    /\ hprev.data # Zero
    /\ h.kind = "CMHasher"

\* C9 as stated: write applies the word operation len/width times when len
\* is an exact multiple of the width and floor(len/width)+1 times otherwise.
C9_NoPaddedWordOnExactMultiple ==
    dlast.op = "write" =>
        Len(hlog) = IF Len(dlast.val) % CHUNK = 0
                    THEN Len(dlast.val) \div CHUNK
                    ELSE (Len(dlast.val) \div CHUNK) + 1

\* C9 amended: write always applies the word operation floor(len/width)+1
\* times: once per full chunk, in order, and then once on the tail padded
\* with zero bytes after it, which is the all-zero word when len is an exact
\* multiple of the width.
C9_OneHashPerChunkAndOneForTail ==
    dlast.op = "write" =>
        LET bytes == dlast.val
            n == Len(bytes) \div CHUNK
            tail == SubSeq(bytes, (CHUNK * n) + 1, Len(bytes))
        IN  /\ Len(hlog) = n + 1
            /\ \A k \in 1 .. n :
                  to_ne_bytes(hlog[k].val)
                      = SubSeq(bytes, (CHUNK * (k - 1)) + 1, CHUNK * k)
            /\ to_ne_bytes(hlog[n + 1].val)
                  = tail \o [k \in 1 .. (CHUNK - Len(tail)) |-> 0]
            /\ (Len(bytes) % CHUNK = 0 => hlog[n + 1].val = Zero)

\* a write of exactly two chunks, hashed as three words
C9_Witness ==
    /\ dlast.op = "write"
    /\ dlast.val = LOREM16
    /\ Len(hlog) = 3
    /\ hlog[3].val = Zero

\* C10: write_word(value) applies the word operation exactly once, to value
\* itself, sets the register to the hash it returned and, on a CMHasher,
\* advances the hasher state by that one mix.
C10_WriteWordHashesOnce ==
    dlast.op = "write_u64" =>
        /\ Len(hlog) = 1
        /\ hlog[1].val = dlast.val
        /\ h.data = hlog[1].hash
        /\ IF h.kind = "CMHasher"
           THEN LET p == ProductBy2p62m1(BitXor(dlast.val, hprev.state))
                IN  /\ hlog[1].pre = hprev.state
                    /\ h.data = LowHalf(p)
                    /\ h.state = HighHalf(p)
           ELSE h.data = XorHalves(ProductBy2p62m1(dlast.val))

\* write_u64 on a CMHasher whose register a write has filled
C10_Witness ==
    /\ dlast.op = "write_u64"
    /\ dlast.val = DEADBEEF
    /\ dlast.prevop = "write"
    /\ h.kind = "CMHasher"
    /\ hprev.data # Zero
    /\ h.state # hprev.state

----------------------------------------------------------------------------
(* Claims about the builder *)

\* C11: an adapter a builder produces starts with the hasher state the
\* builder was configured with and register 0, whatever adapters produced
\* before have done; two adapters of builders of the same state that were
\* fed the same writes return the same value from finish().
C11_BuiltAdaptersAgree ==
    /\ \A k \in Slots :
          slot[k].fed = <<>> =>
              /\ slot[k].a.state = slot[k].from
              /\ slot[k].a.data = Zero
              /\ slot[k].from \in InitStates
    /\ \A j, k \in Slots :
          (/\ slot[j].from = slot[k].from
           /\ slot[j].fed = slot[k].fed
           /\ slot[j].fin # NoRet
           /\ slot[k].fin # NoRet)
              => slot[j].fin = slot[k].fin

\* the test buildhashers on a builder of state 0: both adapters were fed the
\* length and the bytes and then finished
C11_Witness ==
    /\ bld.state = Zero
    /\ slot["a1"].from = Zero
    /\ slot["a2"].from = Zero
    /\ slot["a1"].fed = HashWrites(LEN26, LOREM26)
    /\ slot["a2"].fed = slot["a1"].fed
    /\ slot["a1"].fin # NoRet
    /\ slot["a1"].fin = slot["a2"].fin
    /\ slot["a1"].fin # Zero
    /\ slot["a1"].a.state # Zero

----------------------------------------------------------------------------
(* Claims about the concurrent hasher *)

\* C12: with the threads' loads and stores interleaved in every way, each
\* hash returned is low((v XOR s) * C) for the call's input v and an s that
\* is the hasher's initial state or a high half some call stored before;
\* the shared state is at all times the initial state or the high half a
\* call stored.
C12_EveryHashFromSomeStoredState ==
    /\ mo[1] \in InitStates
    /\ \A t \in Threads : \A k \in 1 .. Len(clog[t]) :
          LET c == clog[t][k]
              p == ProductBy2p62m1(BitXor(c.val, c.pre))
          IN  /\ c.ret = LowHalf(p)
              /\ mo[c.at] = HighHalf(p)
              /\ \E j \in 1 .. (c.at - 1) : mo[j] = c.pre
    /\ \A j \in 2 .. Len(mo) :
          \E t \in Threads : \E k \in 1 .. Len(clog[t]) : clog[t][k].at = j
    /\ \A t \in Threads :
          pc[t] = "loaded" => \E j \in 1 .. Len(mo) : mo[j] = loc[t].state

\* both threads have finished their calls; one of them hashed from a state
\* the other thread had stored, and the state moved more than once
C12_Witness ==
    /\ \A t \in Threads : Len(clog[t]) = MaxThreadCalls /\ pc[t] = "idle"
    /\ \E k \in 1 .. MaxThreadCalls, l \in 1 .. MaxThreadCalls :
          /\ clog["t2"][k].pre = mo[clog["t1"][l].at]
          /\ clog["t2"][k].pre # mo[1]
          /\ clog["t2"][k].ret # Zero
    /\ Latest # mo[1]
    /\ Latest # mo[2]

\* C13: fast_hash is a load and a separate store.  Two calls of different
\* threads with the same input that loaded the same state return the same
\* hash and store the same state, the state after one advance: one of the
\* two updates is lost.
C13_SameLoadSameHashOneAdvance ==
    \A k \in 1 .. Len(clog["t1"]) : \A l \in 1 .. Len(clog["t2"]) :
        LET c == clog["t1"][k]
            d == clog["t2"][l]
            p == ProductBy2p62m1(BitXor(c.val, c.pre))
        IN  (c.val = d.val /\ c.pre = d.pre) =>
                /\ c.ret = d.ret
                /\ c.ret = LowHalf(p)
                /\ mo[c.at] = HighHalf(p)
                /\ mo[d.at] = HighHalf(p)

\* the first calls of the two threads, both of 0xDEADBEEF, both loaded the
\* constructor's state while it was the current one; they returned the same
\* hash, and the state after both is the state after one advance, not two
C13_Witness ==
    /\ Len(mo) = 3
    /\ Len(clog["t1"]) = 1 /\ Len(clog["t2"]) = 1
    /\ \A t \in Threads :
          /\ pc[t] = "idle"
          /\ clog[t][1].val = DEADBEEF
          /\ clog[t][1].pre = mo[1]
          /\ clog[t][1].latest
    /\ clog["t1"][1].ret = clog["t2"][1].ret
    /\ Latest = HighHalf(ProductBy2p62m1(BitXor(DEADBEEF, mo[1])))
    /\ Latest # HighHalf(ProductBy2p62m1(BitXor(DEADBEEF, mo[2])))
    /\ Latest # mo[1]

\* C19: fast_hash neither waits nor retries.  A thread with calls left can
\* always take its next step, whatever the other thread is doing; each
\* completed call has executed one load and one store; and under a fair
\* scheduler every thread completes all its calls.
C19_OneLoadOneStoreAllFinish ==
    /\ [](\A t \in Threads :
            /\ nops[t].store = Len(clog[t])
            /\ nops[t].load = Len(clog[t]) + (IF pc[t] = "loaded" THEN 1 ELSE 0)
            /\ Len(clog[t]) < MaxThreadCalls => ENABLED ThreadStep(t))
    /\ <>[](\A t \in Threads :
              Len(clog[t]) = MaxThreadCalls /\ pc[t] = "idle")

\* both threads are through all their calls, after interfering with each
\* other: a call of t1 hashed from a state t2 stored
C19_Witness ==
    /\ \A t \in Threads :
          /\ Len(clog[t]) = MaxThreadCalls
          /\ pc[t] = "idle"
          /\ nops[t] = [load |-> MaxThreadCalls, store |-> MaxThreadCalls]
    /\ \E k \in 1 .. MaxThreadCalls, l \in 1 .. MaxThreadCalls :
          /\ clog["t1"][k].pre = mo[clog["t2"][l].at]
          /\ clog["t1"][k].at > clog["t2"][l].at
          /\ clog["t2"][l].at > 1
    /\ Len(mo) = (2 * MaxThreadCalls) + 1

----------------------------------------------------------------------------
(* Claims about one caller's hashers *)

StateAfter(k) ==
    IF k < Len(hist["h1"].calls) THEN hist["h1"].calls[k + 1].pre ELSE tl["h1"]

\* C15: used by one caller, a CoreHasher and a TLCoreHasher constructed with
\* the same state and given the same inputs return the same hashes, and
\* their states agree after every call.
C15_SingleCallerSameAsSequential ==
    LET c == clog["t1"]
        q == hist["h1"].calls
    IN  hist["h1"].init = mo[1] =>
            \A k \in 1 .. Len(c) :
                (k <= Len(q) /\ \A j \in 1 .. k : c[j].val = q[j].val) =>
                    /\ c[k].ret = q[k].ret
                    /\ c[k].pre = q[k].pre
                    /\ mo[c[k].at] = StateAfter(k)
                    /\ (k = Len(c) /\ pc["t1"] = "idle") => Latest = StateAfter(k)

\* both hashers, constructed with S0, have hashed 0 and then 0xDEADBEEF
C15_Witness ==
    /\ mo[1] = DEFAULT_HASHER_STATE
    /\ hist["h1"].init = DEFAULT_HASHER_STATE
    /\ Len(clog["t1"]) = 2
    /\ Len(hist["h1"].calls) = 2
    /\ \A k \in 1 .. 2 : clog["t1"][k].val = hist["h1"].calls[k].val
    /\ clog["t1"][1].val = Zero
    /\ clog["t1"][2].val = DEADBEEF
    /\ clog["t1"][2].ret = hist["h1"].calls[2].ret
    /\ Latest = tl["h1"]
    /\ Latest # mo[2]
    /\ mo[2] # mo[1]

\* the state a hasher constructed with init has after the calls of log
ChainEnd(init, log) ==
    IF log = <<>> THEN init
    ELSE LET c == log[Len(log)]
         IN  HighHalf(ProductBy2p62m1(BitXor(c.val, c.pre)))

\* each call of log hashed from the state the call before it left, the first
\* from init
Chained(init, log) ==
    \A k \in 1 .. Len(log) :
        /\ log[k].pre = ChainEnd(init, SubSeq(log, 1, k - 1))
        /\ log[k].ret = LowHalf(ProductBy2p62m1(BitXor(log[k].val, log[k].pre)))

\* C20: get_state() returns the current state and changes nothing; the
\* hashes returned and the state reached depend on the constructor and the
\* hash_word calls alone, however many get_state() calls came in between,
\* and no step but a constructor or a hash_word changes the state.
C20_GetStateReadOnly ==
    /\ [](/\ last.op = "get_state" => ret = tl[last.inst]
          /\ last.op = "CoreHasher::get_state" => ret = Latest
          /\ Chained(hist["h1"].init, hist["h1"].calls)
          /\ tl["h1"] = ChainEnd(hist["h1"].init, hist["h1"].calls)
          /\ Chained(mo[1], clog["t1"])
          /\ Latest = ChainEnd(mo[1], clog["t1"]))
    /\ [][/\ last'.op \in {"get_state", "CoreHasher::get_state"} =>
                tl' = tl /\ hist' = hist /\ mo' = mo /\ clog' = clog
          /\ (tl' # tl \/ mo' # mo) =>
                last'.op \in {"new", "with_state", "fast_hash",
                              "CoreHasher::new", "CoreHasher::with_state",
                              "CoreHasher::fast_hash"}]_vars

\* get_state() on a TLCoreHasher that has hashed twice and whose state has
\* moved, next to a CoreHasher whose state has moved as well
C20_Witness ==
    /\ last.op = "get_state"
    /\ Len(hist["h1"].calls) = 2
    /\ ret = tl["h1"]
    /\ ret # hist["h1"].init
    /\ ret # hist["h1"].calls[2].pre
    /\ Len(clog["t1"]) = 2
    /\ Latest # mo[1]

----------------------------------------------------------------------------
(* Further claims about the digest adapters *)

\* C16: no operation fails.  Whatever the word or the byte slice, the empty
\* one included, each operation leaves the hasher state and the register
\* words of the full width and returns one; the multiplier (2 << 61) - 1 is
\* computed without overflow; write of the empty slice hashes the one
\* all-zero word and leaves the register that fold defines.
C16_AlwaysWellFormedWords ==
    /\ IsWord(h.data)
    /\ h.kind = "CMHasher" => IsWord(h.state)
    /\ \A k \in 1 .. Len(hlog) : IsWord(hlog[k].val) /\ IsWord(hlog[k].hash)
    /\ dlast.op = "finish" => IsWord(ret)
    /\ dlast.op \in {"write", "write_u64"} => Len(hlog) >= 1
    /\ U64_MULTIPLIER = LowHalf(ProductBy2p62m1(One))
    /\ (dlast.op = "write" /\ dlast.val = <<>>) =>
          /\ Len(hlog) = 1
          /\ hlog[1].val = Zero
          /\ h.data = IF h.kind = "CMHasher"
                      THEN BitXor(hprev.state,
                                  LowHalf(ProductBy2p62m1(hprev.state)))
                      ELSE Zero

\* write of the empty slice on a CMHasher that has been written to and
\* finished: the register gets a value other than 0
C16_Witness ==
    /\ dlast.op = "write"
    /\ dlast.val = <<>>
    /\ dlast.prevop = "finish"
    /\ h.kind = "CMHasher"
    /\ dn = 2
    /\ h.data # Zero
    /\ h.state \notin InitStates

\* C17 as stated: on one CMHasher, write(b); finish(); write(b); finish()
\* returns two different digests, for any b.
C17_RepeatedWriteAlwaysDiffers ==
    dpat.stage = 4 => dpat.d1 # dpat.d2

\* C17 amended: on one CMHasher the hasher state persists across finish(),
\* so in write(b); finish(); write(b); finish() the second write starts from
\* the state the first one left.  The two digests are equal whenever the
\* first write left the state as it found it; they differ for
\* b"Hello, World!" on a CMHasher::new().
C17_RepeatedWriteFromPersistedState ==
    dpat.stage = 4 =>
        /\ dpat.s1 = dpat.e0
        /\ h.state = CMHasher_write([kind |-> "CMHasher", state |-> dpat.s1,
                                     data |-> Zero], dpat.b).a.state
        /\ dpat.s0 = dpat.s1 => dpat.d1 = dpat.d2
        /\ (dpat.s0 = DEFAULT_HASHER_STATE /\ dpat.b = HELLO_WORLD) =>
              dpat.d1 # dpat.d2

\* the test hasherimpl
C17_Witness ==
    /\ dpat.stage = 4
    /\ dpat.b = HELLO_WORLD
    /\ dpat.s0 = DEFAULT_HASHER_STATE
    /\ dn = 2
    /\ dpat.d1 # dpat.d2
    /\ dpat.s1 # dpat.s0

\* C18: on one StatelessHasher write(b); finish() returns the same value
\* every time, whatever was written and finished before: the XOR of the
\* stateless hashes of b's words.
C18_StatelessDigestRepeats ==
    \A b \in ByteStrings : \A k \in 1 .. Len(dseen[b]) :
        /\ dseen[b][k] = dseen[b][1]
        /\ dseen[b][k] = StatelessHasher_fold(write_words(b), Zero, <<>>).acc
        /\ (Len(b) < CHUNK /\ endian = "little") =>
              dseen[b][k] = XorHalves(ProductBy2p62m1(
                  <<IF Len(b) >= 1 THEN b[1] + (IF Len(b) >= 2 THEN 256 * b[2] ELSE 0)
                    ELSE 0, 0, 0, 0>>))

\* the same buffer written and finished twice with another write in between
C18_Witness ==
    /\ h.kind = "StatelessHasher"
    /\ dlast.op = "finish"
    /\ Len(dseen[HELLO_WORLD]) = 2
    /\ Len(dseen[<<72, 105>>]) = 1
    /\ ret = dseen[HELLO_WORLD][1]
    /\ ret # dseen[<<72, 105>>][1]
    /\ ret # Zero

\* register values an adapter might hold when it is written to
Registers == {Zero, DEADBEEF, WordMax}

\* the adapter a with x in its register
WithRegister(a, x) == [a EXCEPT !.data = x]

\* C21: finish() changes the register and nothing else, and write and
\* write_word do not read the register: the adapter they leave is the same
\* whatever the register held before, so it does not depend on the finish()
\* calls made before them.
C21_FinishTouchesOnlyRegister ==
    /\ dlast.op = "finish" => h = WithRegister(hprev, Zero)
    /\ (dlast.op = "finish" /\ h.kind = "CMHasher") => h.state = hprev.state
    /\ dlast.op = "write" =>
          \A x \in Registers :
              h = IF h.kind = "CMHasher"
                  THEN CMHasher_write(WithRegister(hprev, x), dlast.val).a
                  ELSE StatelessHasher_write(WithRegister(hprev, x), dlast.val).a
    /\ dlast.op = "write_u64" =>
          \A x \in Registers :
              h = IF h.kind = "CMHasher"
                  THEN CMHasher_write_u64(WithRegister(hprev, x), dlast.val).a
                  ELSE StatelessHasher_write_u64(WithRegister(hprev, x), dlast.val).a

\* write_u64 on a CMHasher whose register the finish() before had cleared,
\* after a write that had filled it
C21_Witness ==
    /\ dlast.op = "write_u64"
    /\ dlast.prevop = "finish"
    /\ dlast.val = DEADBEEF
    /\ h.kind = "CMHasher"
    /\ dn = 2
    /\ hprev.data = Zero
    /\ hprev.state \notin InitStates
    /\ h.data # Zero

\* k zero bytes
Zeros(k) == [j \in 1 .. k |-> 0]

\* how many bytes can follow bytes without completing its tail word
Room(bytes) == (CHUNK - 1) - (Len(bytes) % CHUNK)

\* what write(bytes) leaves of the adapter a
Written(a, bytes) ==
    IF a.kind = "CMHasher" THEN CMHasher_write(a, bytes).a
    ELSE StatelessHasher_write(a, bytes).a

\* C22: zero bytes at the end of a slice that do not complete its tail word
\* are not seen: on both adapters write(b) leaves the register and the
\* hasher state that write(b followed by k zero bytes) leaves from the same
\* adapter; the empty slice and 1 .. 7 zero bytes are written alike.
C22_TrailingZerosInvisible ==
    dlast.op = "write" =>
        /\ \A k \in 1 .. Room(dlast.val) :
              h = Written(hprev, dlast.val \o Zeros(k))
        /\ \A k \in 1 .. Room(dlast.val) :
              write_words(dlast.val \o Zeros(k)) = write_words(dlast.val)
        /\ dlast.val = <<0>> => h = Written(hprev, <<>>)

\* write of one zero byte on a CMHasher that has been written to, leaving
\* what write of the empty slice leaves
C22_Witness ==
    /\ dlast.op = "write"
    /\ dlast.val = <<0>>
    /\ dlast.prevop = "write"
    /\ h.kind = "CMHasher"
    /\ h = Written(hprev, <<>>)
    /\ h = Written(hprev, Zeros(CHUNK - 1))
    /\ h # Written(hprev, Zeros(CHUNK))
    /\ h.data # Zero

\* the XOR of the stateless hashes of words, each the XOR of the halves of
\* the word's product by 2^62 - 1
RECURSIVE XorOfHashes(_)
XorOfHashes(words) ==
    IF words = <<>> THEN Zero
    ELSE BitXor(XorHalves(ProductBy2p62m1(Head(words))), XorOfHashes(Tail(words)))

\* the full chunks of bytes, and bytes with its full chunks in reverse order
FullChunks(bytes) == array_chunks(bytes)

RECURSIVE Flat(_)
Flat(chunks) == IF chunks = <<>> THEN <<>> ELSE Head(chunks) \o Flat(Tail(chunks))

ChunksReversed(bytes) ==
    LET c == FullChunks(bytes)
    IN  Flat([k \in 1 .. Len(c) |-> c[Len(c) + 1 - k]]) \o remainder(bytes)

\* two different full chunks
LOREM_IP == SubSeq(LOREM16, 1, CHUNK)
Chunks == {HELLO_W, LOREM_IP}

\* the digest the adapter written to last would hold after write(bytes)
StatelessDigest(bytes) == StatelessHasher_write(hprev, bytes).a.data

\* C23: after write(b) a StatelessHasher holds the XOR of the stateless
\* hashes of the chunks of b (the full chunks and the zero-padded tail), so
\* the digest does not depend on the order of the full chunks, and two equal
\* full chunks cancel out of it.
C23_DigestIsXorOfChunkHashes ==
    (dlast.op = "write" /\ h.kind = "StatelessHasher") =>
        /\ h.data = XorOfHashes(write_words(dlast.val))
        /\ h.data = StatelessHasher_write(hprev, ChunksReversed(dlast.val)).a.data
        /\ \A c \in Chunks : \A d \in Chunks :
              StatelessDigest(c \o d \o dlast.val) = StatelessDigest(d \o c \o dlast.val)
        /\ \A c \in Chunks :
              /\ StatelessDigest(c \o c \o dlast.val) = h.data
              /\ Len(dlast.val) % CHUNK = 0 =>
                    StatelessDigest(c \o dlast.val \o c) = h.data

\* a StatelessHasher has been written two different full chunks: its digest
\* is not 0, it is the digest of the chunks in the other order, and the
\* digest of either chunk written twice is 0
C23_Witness ==
    /\ dlast.op = "write"
    /\ dlast.val = LOREM16
    /\ h.kind = "StatelessHasher"
    /\ h.data # Zero
    /\ ChunksReversed(LOREM16) # LOREM16
    /\ h.data = StatelessDigest(ChunksReversed(LOREM16))
    /\ h.data # StatelessDigest(LOREM_IP)
    /\ StatelessDigest(LOREM_IP \o LOREM_IP) = Zero

====
